---- MODULE Spec2Model ----
(***************************************************************************)
(* The two restart programs of the repository:                             *)
(*   - the webhook orchestrator (src/unnamed/part_000): an authenticated   *)
(*     POST starts orchestrateRestartAll, which runs restartService for    *)
(*     every entry of SERVICES;                                            *)
(*   - the watchdog (src/server.js): mainLoop probes two services and      *)
(*     runs restartService after two failed probes.                        *)
(* Every await of the source is a step of the model: the state between two *)
(* steps is the state in which the awaited call is outstanding.            *)
(***************************************************************************)
EXTENDS Integers, Sequences, FiniteSets, TLC

\* ------------------------------------------------------------ constants
ACTION_RETRY == 3
SUSPEND_TIMEOUT_MS == 60000
START_TIMEOUT_MS == 180000
RESUME_TIMEOUT_MS == 180000
STATUS_POLL_INTERVAL_MS == 5000
\* The unit of the linear back-off between attempts (webhook program).
BACKOFF_MS == 2000

\* Longest configured service list explored.
MaxServices == 2

\* A status query answers at once or after one poll interval.
Latencies == {0, STATUS_POLL_INTERVAL_MS}

NULL == "null"
SECRET == "s3cret"
ALERT_URL == "https://alerts.example/hook"
\* An entry of SERVICES_JSON is an object (named by its serviceId) or the
\* JSON value null, which Array.isArray lets through.
SVC == "svc-a"

\* ------------------------------------------------------------- strings
\* A status string is a sequence of characters, so that lower-casing is
\* computed and not assumed.
live == <<"l", "i", "v", "e">>
running == <<"r", "u", "n", "n", "i", "n", "g">>
healthy == <<"h", "e", "a", "l", "t", "h", "y">>
suspended == <<"s", "u", "s", "p", "e", "n", "d", "e", "d">>
inactive == <<"i", "n", "a", "c", "t", "i", "v", "e">>
stopped == <<"s", "t", "o", "p", "p", "e", "d">>
EMPTY == << >>

lowerChar(c) ==
  CASE c = "L" -> "l"
    [] c = "R" -> "r"
    [] c = "H" -> "h"
    [] c = "S" -> "s"
    [] c = "I" -> "i"
    [] c = "D" -> "d"
    [] c = "E" -> "e"
    [] OTHER -> c

toLowerCase(s) == [i \in DOMAIN s |-> lowerChar(s[i])]

\* a || b of JavaScript on strings: the empty (or absent) string is falsy.
orElse(a, b) == IF a # EMPTY THEN a ELSE b

\* The bodies a status query may carry: service.status, service.state and
\* state, each a string or absent (EMPTY).
json(sstatus, sstate, state) ==
  [service_status |-> sstatus, service_state |-> sstate, state |-> state]

Bodies ==
  { json(live, EMPTY, EMPTY),
    json(<<"L", "i", "v", "e">>, EMPTY, EMPTY),
    json(<<" ", "l", "i", "v", "e", " ">>, EMPTY, EMPTY),
    json(EMPTY, running, EMPTY),
    json(EMPTY, EMPTY, healthy),
    json(suspended, EMPTY, EMPTY),
    json(EMPTY, <<"S", "T", "O", "P", "P", "E", "D">>, EMPTY),
    json(EMPTY, EMPTY, inactive),
    json(<<"d", "e", "p", "l", "o", "y">>, EMPTY, live),
    json(EMPTY, EMPTY, EMPTY) }

\* What a fetch of the status endpoint produces: a rejection (transport
\* error), a non-2xx answer, or a 2xx answer with a body.
Responses ==
  { [net |-> "reject", ok |-> FALSE, body |-> json(EMPTY, EMPTY, EMPTY)],
    [net |-> "answer", ok |-> FALSE, body |-> json(EMPTY, EMPTY, EMPTY)] }
  \cup { [net |-> "answer", ok |-> TRUE, body |-> b] : b \in Bodies }

\* The status the webhook program's poller compares.
statusOfWebhook(body) ==
  toLowerCase(orElse(body.service_status,
                     orElse(body.service_state, orElse(body.state, EMPTY))))

\* The status the watchdog's poller compares: service.state is not read.
statusOfWatchdog(body) ==
  orElse(toLowerCase(body.service_status),
         orElse(toLowerCase(body.state), EMPTY))

normalizeStatus(v, body) ==
  IF v = "webhook" THEN statusOfWebhook(body) ELSE statusOfWatchdog(body)

\* Mutant: the suspend list pasted into the resume loop as well.
allowedStatesPasted(phase) == {suspended, inactive, stopped}

allowedStates(phase) ==
  IF phase = "suspend" THEN {suspended, inactive, stopped}
  ELSE {live, running, healthy}

includes(allowed, status) == status \in allowed

timeoutMs(v, phase) ==
  IF phase = "suspend" THEN SUSPEND_TIMEOUT_MS
  ELSE IF v = "webhook" THEN START_TIMEOUT_MS ELSE RESUME_TIMEOUT_MS

\* The deadline test after an unmatched or failed query.
timedOutWebhook(elapsed, timeout) == elapsed > timeout

timedOutWatchdog(elapsed, timeout) == elapsed >= timeout

timedOut(v, elapsed, timeout) ==
  IF v = "webhook" THEN timedOutWebhook(elapsed, timeout)
  ELSE timedOutWatchdog(elapsed, timeout)

\* ---------------------------------------------------------------- state
VARIABLES
  variant,            \* "webhook" or "watchdog": the program that runs
  SERVICES,           \* webhook: the parsed SERVICES_JSON
  UPTIMEROBOT_SECRET, \* webhook: the configured secret, or NULL
  ALERT_WEBHOOK,      \* webhook: the alert URL, or NULL
  overlap,            \* whether a trigger may arrive while one is served
  lastReq,            \* the webhook request handled last
  task                \* per slot: one orchestrateRestartAll / mainLoop call

vars == <<variant, SERVICES, UPTIMEROBOT_SECRET, ALERT_WEBHOOK, overlap,
          lastReq, task>>

config == <<variant, SERVICES, UPTIMEROBOT_SECRET, ALERT_WEBHOOK, overlap>>

Slots == {1, 2}

Entries == {SVC, NULL}

ServiceLists == UNION { [1..n -> Entries] : n \in 0..MaxServices }

Headers == {SECRET, "wrong", NULL}

NoReq == [secret |-> NULL, status |-> 0, spawned |-> FALSE]

\* A slot that serves nothing.
Free ==
  [ pc |-> "free", idx |-> 0, started |-> << >>, results |-> << >>,
    orchAlerts |-> << >>, delivery |-> "none",
    phase |-> "none", attempt |-> 0, elapsed |-> 0,
    suspended |-> FALSE, resumed |-> FALSE,
    suspendActs |-> 0, resumeActs |-> 0,
    suspendConfirmAt |-> 0, resumeConfirmAt |-> 0,
    resumeErr |-> FALSE,
    sawResume |-> FALSE, settled |-> FALSE, backoffs |-> 0,
    alerts |-> << >>, outcome |-> "none", resp |-> 0,
    probes |-> 0, restarts |-> << >>, probeLog |-> << >>,
    lateSuspend |-> FALSE, clean |-> FALSE, backoffMs |-> 0 ]

Init ==
  /\ variant \in {"webhook", "watchdog"}
  /\ SERVICES \in (IF variant = "webhook" THEN ServiceLists ELSE {<< >>})
  /\ UPTIMEROBOT_SECRET \in (IF variant = "webhook" THEN {SECRET, NULL} ELSE {NULL})
  /\ ALERT_WEBHOOK \in (IF variant = "webhook" THEN {ALERT_URL, NULL} ELSE {NULL})
  /\ overlap = FALSE
  /\ lastReq = NoReq
  /\ task = [t \in Slots |-> Free]

\* ------------------------------------------------------- restartService
\* The service the activation r is working on: the entry of SERVICES in
\* the webhook program, SERVICE 1 or SERVICE 2 in the watchdog.
target(v, r) == IF v = "webhook" THEN <<r.idx, SERVICES[r.idx]>> ELSE <<r.idx, SVC>>

\* History: another activation has a restart of r's service in progress
\* and has issued a resume call in it.  It is read when r issues a
\* suspend call.
peerResumeIssued(v, r) ==
  \E u \in Slots :
    /\ task[u].phase = "resume"
    /\ task[u].pc \in {"action", "query", "sleep", "backoff"}
    /\ target(v, task[u]) = target(v, r)

\* Mutant: the confirmation flags live outside the function and are not
\* set back when a run starts.
restartServiceStale(v, r, entry) ==
  IF v = "webhook" /\ entry = NULL
  THEN [r EXCEPT !.pc = "threw", !.outcome = "threw", !.phase = "none"]
  ELSE [r EXCEPT !.pc = "action", !.outcome = "none", !.phase = "suspend",
                 !.attempt = 1, !.elapsed = 0,
                 !.suspendActs = 1, !.resumeActs = 0,
                 !.suspendConfirmAt = 0, !.resumeConfirmAt = 0,
                 !.resumeErr = FALSE,
                 !.sawResume = FALSE, !.settled = FALSE, !.backoffs = 0,
                 !.alerts = << >>, !.delivery = "none",
                 !.lateSuspend = peerResumeIssued(v, r), !.clean = TRUE,
                 !.backoffMs = 0]

\* restartService up to its first await: the first suspend call is issued
\* in the caller's turn.  The webhook program destructures its argument,
\* which throws on null.
restartService(v, r, entry) ==
  IF v = "webhook" /\ entry = NULL
  THEN [r EXCEPT !.pc = "threw", !.outcome = "threw", !.phase = "none",
                 !.attempt = 0, !.elapsed = 0,
                 !.suspended = FALSE, !.resumed = FALSE,
                 !.suspendActs = 0, !.resumeActs = 0,
                 !.suspendConfirmAt = 0, !.resumeConfirmAt = 0,
                 !.resumeErr = FALSE,
                 !.sawResume = FALSE, !.settled = FALSE, !.backoffs = 0,
                 !.alerts = << >>, !.delivery = "none", !.lateSuspend = FALSE,
                 !.clean = FALSE, !.backoffMs = 0]
  ELSE [r EXCEPT !.pc = "action", !.outcome = "none", !.phase = "suspend",
                 !.attempt = 1, !.elapsed = 0,
                 !.suspended = FALSE, !.resumed = FALSE,
                 !.suspendActs = 1, !.resumeActs = 0,
                 !.suspendConfirmAt = 0, !.resumeConfirmAt = 0,
                 !.resumeErr = FALSE,
                 !.sawResume = FALSE, !.settled = FALSE, !.backoffs = 0,
                 !.alerts = << >>, !.delivery = "none",
                 !.lateSuspend = peerResumeIssued(v, r), !.clean = TRUE,
                 !.backoffMs = 0]

\* The resume loop's first iteration: the first resume call is issued.
startResume(r) ==
  [r EXCEPT !.pc = "action", !.phase = "resume", !.attempt = 1,
            !.elapsed = 0, !.resumeActs = 1, !.delivery = "none"]

\* What follows the suspend loop in the webhook program: an alert when
\* the loop ended unconfirmed, then the settle delay.
afterSuspendLoop(r) ==
  IF ~r.suspended
  THEN [r EXCEPT !.pc = "suspendAlert", !.alerts = Append(@, "suspendFailed")]
  ELSE [r EXCEPT !.pc = "settle"]

\* Mutant: the resume failure is returned without an alert.
afterResumeLoopSilent(r) ==
  IF ~r.resumed THEN [r EXCEPT !.pc = "returned", !.outcome = "fail"]
  ELSE [r EXCEPT !.pc = "returned", !.outcome = "ok"]

\* What follows the resume loop in the webhook program.
afterResumeLoop(r) ==
  IF ~r.resumed
  THEN [r EXCEPT !.pc = "resumeAlert", !.alerts = Append(@, "resumeFailed")]
  ELSE [r EXCEPT !.pc = "returned", !.outcome = "ok"]

\* Mutant: an exhausted suspend loop ends the run as failed.
loopExitHardStop(v, r) ==
  IF r.phase = "suspend" \/ v = "watchdog"
  THEN [r EXCEPT !.pc = "returned", !.outcome = "fail"]
  ELSE afterResumeLoop(r)

\* A retry loop ran out of iterations.
loopExit(v, r) ==
  IF v = "webhook"
  THEN IF r.phase = "suspend" THEN afterSuspendLoop(r) ELSE afterResumeLoop(r)
  ELSE IF r.phase = "suspend" THEN startResume(r)
       ELSE [r EXCEPT !.pc = "returned", !.outcome = "fail"]

\* Mutant: the loop test lets one attempt too many through.
nextAttemptOffByOne(v, r) ==
  IF r.attempt + 1 <= ACTION_RETRY + 1
  THEN IF r.phase = "suspend"
       THEN [r EXCEPT !.pc = "action", !.attempt = @ + 1, !.elapsed = 0,
                      !.suspendActs = @ + 1]
       ELSE [r EXCEPT !.pc = "action", !.attempt = @ + 1, !.elapsed = 0,
                      !.resumeActs = @ + 1]
  ELSE loopExit(v, r)

\* attempt++ and the loop test; a further iteration issues its action call.
nextAttempt(v, r) ==
  IF r.attempt + 1 <= ACTION_RETRY
  THEN IF r.phase = "suspend"
       THEN [r EXCEPT !.pc = "action", !.attempt = @ + 1, !.elapsed = 0,
                      !.suspendActs = @ + 1,
                      !.lateSuspend = @ \/ peerResumeIssued(v, r)]
       ELSE [r EXCEPT !.pc = "action", !.attempt = @ + 1, !.elapsed = 0,
                      !.resumeActs = @ + 1]
  ELSE loopExit(v, r)

\* Mutant: a failed resume attempt starts over with a suspend call.
attemptFailedResuspend(v, r) ==
  IF r.phase = "resume"
  THEN [r EXCEPT !.pc = "action", !.phase = "suspend", !.elapsed = 0,
                 !.suspendActs = @ + 1]
  ELSE IF v = "webhook" THEN [r EXCEPT !.pc = "backoff"] ELSE nextAttempt(v, r)

\* An attempt that threw or was not confirmed: the webhook program backs
\* off before the next iteration, the watchdog iterates at once.
attemptFailed(v, r) ==
  IF v = "webhook" THEN [r EXCEPT !.pc = "backoff"] ELSE nextAttempt(v, r)

\* Mutant: the break after a confirmed suspend is missing, so the loop
\* goes on to its next iteration.
attemptConfirmedNoBreak(v, r) ==
  IF r.phase = "suspend"
  THEN nextAttempt(v, [r EXCEPT !.suspended = TRUE,
                                !.suspendConfirmAt = r.attempt])
  ELSE IF v = "webhook"
       THEN afterResumeLoop([r EXCEPT !.resumed = TRUE,
                                      !.resumeConfirmAt = r.attempt])
       ELSE [r EXCEPT !.resumed = TRUE, !.resumeConfirmAt = r.attempt,
                      !.pc = "returned", !.outcome = "ok"]

\* waitForStatus returned a match: break (webhook), break / return (watchdog).
attemptConfirmed(v, r) ==
  IF r.phase = "suspend"
  THEN IF v = "webhook"
       THEN afterSuspendLoop([r EXCEPT !.suspended = TRUE,
                                       !.suspendConfirmAt = r.attempt])
       ELSE startResume([r EXCEPT !.suspended = TRUE,
                                  !.suspendConfirmAt = r.attempt])
  ELSE IF v = "webhook"
       THEN afterResumeLoop([r EXCEPT !.resumed = TRUE,
                                      !.resumeConfirmAt = r.attempt])
       ELSE [r EXCEPT !.resumed = TRUE, !.resumeConfirmAt = r.attempt,
                      !.pc = "returned", !.outcome = "ok"]

\* One iteration of waitForStatus's loop, from the query's answer to the
\* return or the sleep.
pollResult(v, r, resp, latency) ==
  LET e == r.elapsed + latency
      status == normalizeStatus(v, resp.body)
      matched == resp.ok /\ includes(allowedStates(r.phase), status)
      seen == resp.ok /\ r.phase = "resume" /\ status \in {live, running, healthy}
      r1 == [r EXCEPT !.elapsed = e, !.sawResume = @ \/ seen,
                      !.clean = @ /\ matched]
  IN  IF matched THEN attemptConfirmed(v, r1)
      ELSE IF timedOut(v, e, timeoutMs(v, r.phase)) THEN attemptFailed(v, r1)
      ELSE [r1 EXCEPT !.pc = "sleep"]

\* renderAction answered: a 2xx answer starts waitForStatus (its first
\* query is issued), anything else is thrown into the attempt's catch.
\* Mutant: the attempt has no try / catch, so the error of renderAction
\* leaves restartService.
actionThrewUncaught(v, r) == [r EXCEPT !.pc = "threw", !.outcome = "threw"]

\* The attempt's catch block after renderAction threw.
actionThrew(v, r) ==
  attemptFailed(v, IF r.phase = "resume"
                   THEN [r EXCEPT !.resumeErr = TRUE, !.clean = FALSE]
                   ELSE [r EXCEPT !.clean = FALSE])

renderAction(t) ==
  /\ task[t].pc = "action"
  /\ \E res \in {"ok", "status", "reject"} :
       task' = [task EXCEPT ![t] =
                 IF res = "ok" THEN [@ EXCEPT !.pc = "query", !.elapsed = 0]
                 ELSE actionThrew(variant, @)]
  /\ UNCHANGED <<config, lastReq>>

waitForStatus(t) ==
  /\ task[t].pc = "query"
  /\ \E resp \in Responses, latency \in Latencies :
       task' = [task EXCEPT ![t] = pollResult(variant, @, resp, latency)]
  /\ UNCHANGED <<config, lastReq>>

\* Mutant: start is taken anew in every iteration of the poll loop, so
\* the elapsed time never adds up.
pollSleepRestart(t) ==
  /\ task[t].pc = "sleep"
  /\ task' = [task EXCEPT ![t] = [@ EXCEPT !.pc = "query", !.elapsed = 0]]
  /\ UNCHANGED <<config, lastReq>>

\* The poll interval elapsed: the next query is issued.
pollSleep(t) ==
  /\ task[t].pc = "sleep"
  /\ task' = [task EXCEPT ![t] =
               [@ EXCEPT !.pc = "query",
                         !.elapsed = @ + STATUS_POLL_INTERVAL_MS]]
  /\ UNCHANGED <<config, lastReq>>

\* The back-off after a failed attempt elapsed (webhook program): it
\* lasted 2000 * attempt ms, and attempt++ and the loop test follow.
backoff(t) ==
  /\ task[t].pc = "backoff"
  /\ task' = [task EXCEPT ![t] =
               nextAttempt(variant,
                           [@ EXCEPT !.backoffs = @ + 1,
                                     !.backoffMs = BACKOFF_MS * task[t].attempt])]
  /\ UNCHANGED <<config, lastReq>>

\* The settle delay elapsed (webhook program): the resume loop starts.
settle(t) ==
  /\ task[t].pc = "settle"
  /\ task' = [task EXCEPT ![t] = startResume([@ EXCEPT !.settled = TRUE])]
  /\ UNCHANGED <<config, lastReq>>

\* -------------------------------------------------- orchestrateRestartAll
\* for (const s of SERVICES): the iteration for entry i calls restartService.
iterate(r, i) ==
  restartService("webhook",
                 [r EXCEPT !.idx = i, !.started = Append(@, i)], SERVICES[i])

\* Mutant: the empty list is returned on without an alert.
orchestrateRestartAllSilent(r) ==
  IF Len(SERVICES) = 0 THEN [r EXCEPT !.pc = "done"] ELSE iterate(r, 1)

\* orchestrateRestartAll up to its first await.
orchestrateRestartAll(r) ==
  IF Len(SERVICES) = 0
  THEN [r EXCEPT !.pc = "noServicesAlert",
                 !.orchAlerts = Append(@, "noServices")]
  ELSE iterate(r, 1)

\* The loop's step to the next entry, or the return of the results.
nextService(r) ==
  IF r.idx < Len(SERVICES) THEN iterate(r, r.idx + 1)
  ELSE [r EXCEPT !.pc = "done"]

\* restartService resolved: its result is pushed.
orchestratePush(t) ==
  /\ variant = "webhook"
  /\ task[t].pc = "returned"
  /\ task' = [task EXCEPT ![t] =
               nextService([@ EXCEPT !.results = Append(@, task[t].outcome)])]
  /\ UNCHANGED <<config, lastReq>>

\* restartService rejected: the catch block builds its message from
\* s.name, which throws again when s is null; the rejection then reaches
\* the handler's .catch, which alerts without awaiting.
orchestrateCatch(t) ==
  /\ variant = "webhook"
  /\ task[t].pc = "threw"
  /\ task' = [task EXCEPT ![t] =
               IF SERVICES[task[t].idx] = NULL
               THEN [@ EXCEPT !.pc = "orchestratorAlert",
                              !.orchAlerts = Append(@, "orchestratorError")]
               ELSE [@ EXCEPT !.pc = "exceptionAlert",
                              !.orchAlerts = Append(@, "exception")]]
  /\ UNCHANGED <<config, lastReq>>

\* ------------------------------------------------------------ sendAlert
AlertPcs ==
  {"noServicesAlert", "suspendAlert", "resumeAlert", "exceptionAlert",
   "orchestratorAlert"}

\* What the caller does once its sendAlert call has resolved.
afterAlert(r) ==
  CASE r.pc = "noServicesAlert" -> [r EXCEPT !.pc = "done"]
    [] r.pc = "suspendAlert" -> [r EXCEPT !.pc = "settle"]
    [] r.pc = "resumeAlert" -> [r EXCEPT !.pc = "returned", !.outcome = "fail"]
    [] r.pc = "exceptionAlert" ->
         nextService([r EXCEPT !.results = Append(@, "fail")])
    [] r.pc = "orchestratorAlert" -> [r EXCEPT !.pc = "rejected"]

\* Mutant: sendAlert has no try / catch, so a failed POST rejects into
\* the caller.
sendAlertThrowing(t) ==
  /\ task[t].pc \in AlertPcs
  /\ \E d \in (IF ALERT_WEBHOOK = NULL THEN {"unconfigured"}
                ELSE {"sent", "failed"}) :
       task' = [task EXCEPT ![t] =
                 IF d = "failed"
                 THEN [@ EXCEPT !.delivery = d, !.pc = "threw",
                                !.outcome = "threw"]
                 ELSE afterAlert([@ EXCEPT !.delivery = d])]
  /\ UNCHANGED <<config, lastReq>>

\* sendAlert resolves: without ALERT_WEBHOOK it returns at once, otherwise
\* the POST was delivered or failed, and a failure is caught and logged.
sendAlert(t) ==
  /\ task[t].pc \in AlertPcs
  /\ \E d \in (IF ALERT_WEBHOOK = NULL THEN {"unconfigured"}
                ELSE {"sent", "failed"}) :
       task' = [task EXCEPT ![t] = afterAlert([@ EXCEPT !.delivery = d])]
  /\ UNCHANGED <<config, lastReq>>

\* ------------------------------------------------------ webhook handler
\* Mutant: the test that a secret is configured at all is dropped.
authorizedUnconfigured(secret) == secret = UPTIMEROBOT_SECRET

authorized(secret) ==
  UPTIMEROBOT_SECRET # NULL /\ secret = UPTIMEROBOT_SECRET

\* Mutant: the handler awaits the orchestrator, so nothing is answered
\* while the runs are in progress.
handlerStatusAwaited(r) == IF r.pc \in {"done", "rejected"} THEN 200 ELSE 0

\* The status the handler answers an authorized request with, given the
\* orchestrator's state when the handler's synchronous part ends: the
\* orchestrator's promise is not awaited.
handlerStatus(r) == 200

Idle(t) == task[t].pc \in {"free", "done", "rejected"}

\* Mutant: a busy flag; a trigger is served only while nothing else is.
AvailableExclusive(t) ==
  /\ Idle(t)
  /\ \A u \in Slots : u < t => ~Idle(u)
  /\ \A u \in Slots : Idle(u)

\* The slot a new trigger is served in: the lowest idle one, and when
\* triggers do not overlap, only while nothing is being served.
Available(t) ==
  /\ Idle(t)
  /\ \A u \in Slots : u < t => ~Idle(u)
  /\ overlap \/ \A u \in Slots : Idle(u)

webhook401 ==
  /\ variant = "webhook"
  /\ \E secret \in Headers :
       /\ ~authorized(secret)
       /\ lastReq' = [secret |-> secret, status |-> 401, spawned |-> FALSE]
  /\ UNCHANGED <<config, task>>

webhook200 ==
  /\ variant = "webhook"
  /\ \E secret \in Headers, t \in Slots :
       /\ authorized(secret)
       /\ Available(t)
       /\ LET r == orchestrateRestartAll(Free)
          IN  /\ task' = [task EXCEPT ![t] = [r EXCEPT !.resp = handlerStatus(r)]]
              /\ lastReq' = [secret |-> secret, status |-> handlerStatus(r),
                             spawned |-> TRUE]
  /\ UNCHANGED config

\* ------------------------------------------------------------- watchdog
\* checkService up to its first await: the first probe is issued.
checkService(r, i) ==
  [r EXCEPT !.pc = "probe1", !.idx = i, !.probes = 1]

\* mainLoop's step after checkService(i) resolved.
nextCheck(r) ==
  IF r.idx < 2 THEN checkService(r, r.idx + 1) ELSE [r EXCEPT !.pc = "done"]

\* The interval timer (or the start of the process) calls mainLoop.
mainLoop ==
  /\ variant = "watchdog"
  /\ \E t \in Slots :
       /\ Available(t)
       /\ task' = [task EXCEPT ![t] = checkService(Free, 1)]
  /\ UNCHANGED <<config, lastReq>>

\* What checkService does with the answer of a probe of service r.idx: a
\* success returns to mainLoop, a first failure starts the cooldown, a
\* second failure calls restartService.
probed(r, ok) ==
  LET r1 == [r EXCEPT !.probeLog = Append(@, <<r.idx, r.probes, ok>>)]
  IN  IF ok THEN nextCheck(r1)
      ELSE IF r.pc = "probe1" THEN [r1 EXCEPT !.pc = "cooldown"]
      ELSE restartService("watchdog",
                          [r1 EXCEPT !.restarts = Append(@, r.idx)], SVC)

\* Mutant: the first failed probe already calls restartService.
probeEager(t) ==
  /\ variant = "watchdog"
  /\ task[t].pc \in {"probe1", "probe2"}
  /\ \E ok \in BOOLEAN :
       task' = [task EXCEPT ![t] =
                 IF ok THEN nextCheck(@)
                 ELSE restartService("watchdog",
                        [@ EXCEPT !.probeLog = Append(@, <<task[t].idx, task[t].probes, ok>>),
                                  !.restarts = Append(@, task[t].idx)], SVC)]
  /\ UNCHANGED <<config, lastReq>>

\* A health probe answered: ok is res.ok, and a rejection leaves it false.
probe(t) ==
  /\ variant = "watchdog"
  /\ task[t].pc \in {"probe1", "probe2"}
  /\ \E ok \in BOOLEAN :
       task' = [task EXCEPT ![t] = probed(@, ok)]
  /\ UNCHANGED <<config, lastReq>>

\* FIRST_RETRY_DELAY elapsed: the second probe is issued.
cooldown(t) ==
  /\ variant = "watchdog"
  /\ task[t].pc = "cooldown"
  /\ task' = [task EXCEPT ![t] = [@ EXCEPT !.pc = "probe2", !.probes = 2]]
  /\ UNCHANGED <<config, lastReq>>

\* restartService resolved: checkService returns to mainLoop.
checkReturn(t) ==
  /\ variant = "watchdog"
  /\ task[t].pc = "returned"
  /\ task' = [task EXCEPT ![t] =
               nextCheck([@ EXCEPT !.results = Append(@, task[t].outcome)])]
  /\ UNCHANGED <<config, lastReq>>

\* ----------------------------------------------------------------- spec
Next ==
  \/ webhook401
  \/ webhook200
  \/ mainLoop
  \/ \E t \in Slots :
       \/ renderAction(t)
       \/ waitForStatus(t)
       \/ pollSleep(t)
       \/ backoff(t)
       \/ settle(t)
       \/ sendAlert(t)
       \/ orchestratePush(t)
       \/ orchestrateCatch(t)
       \/ probe(t)
       \/ cooldown(t)
       \/ checkReturn(t)

Spec == Init /\ [][Next]_vars

\* A step of the call served in slot t: the awaited remote call or timer
\* returns.
Step(t) ==
  \/ renderAction(t)
  \/ waitForStatus(t)
  \/ pollSleep(t)
  \/ backoff(t)
  \/ settle(t)
  \/ sendAlert(t)
  \/ orchestratePush(t)
  \/ orchestrateCatch(t)
  \/ probe(t)
  \/ cooldown(t)
  \/ checkReturn(t)

\* Every remote call and every timer eventually returns; triggers need
\* not arrive.
FairSpec == Spec /\ \A t \in Slots : WF_vars(Step(t))

\* ------------------------------------------------ overlapping triggers
\* Poll intervals a poll loop is followed through while triggers overlap.
MaxOverlapSleeps == 1

\* The programs with triggers arriving while earlier ones are served:
\* setInterval calls mainLoop whether or not the previous call returned,
\* and the handler starts orchestrateRestartAll for every authorized POST.
OverlapInit ==
  /\ variant \in {"webhook", "watchdog"}
  /\ SERVICES \in (IF variant = "webhook" THEN {<<SVC>>, <<NULL>>, << >>}
                   ELSE {<< >>})
  /\ UPTIMEROBOT_SECRET \in (IF variant = "webhook" THEN {SECRET} ELSE {NULL})
  /\ ALERT_WEBHOOK \in (IF variant = "webhook" THEN {ALERT_URL} ELSE {NULL})
  /\ overlap = TRUE
  /\ lastReq = NoReq
  /\ task = [t \in Slots |-> Free]

\* The activation in slot t is followed: the one in the first slot
\* throughout, one that arrived while another was served as far as the
\* end of its suspend phase.
Followed(t) == t = 1 \/ task[t].phase # "resume"

\* The steps of Next, with every poll loop followed through its first
\* MaxOverlapSleeps intervals only: the behaviours are a part of the
\* program's behaviours.
OverlapNext ==
  \/ webhook401
  \/ webhook200
  \/ mainLoop
  \/ \E t \in Slots :
       \/ Followed(t) /\ renderAction(t)
       \/ Followed(t) /\ waitForStatus(t)
       \/ /\ Followed(t)
          /\ task[t].elapsed < MaxOverlapSleeps * STATUS_POLL_INTERVAL_MS
          /\ pollSleep(t)
       \/ Followed(t) /\ backoff(t)
       \/ Followed(t) /\ settle(t)
       \/ Followed(t) /\ sendAlert(t)
       \/ Followed(t) /\ orchestratePush(t)
       \/ Followed(t) /\ orchestrateCatch(t)
       \/ Followed(t) /\ probe(t)
       \/ Followed(t) /\ cooldown(t)
       \/ Followed(t) /\ checkReturn(t)

OverlapSpec == OverlapInit /\ [][OverlapNext]_vars

\* --------------------------------------------------------------- claims
Webhook == variant = "webhook"

\* The run in slot t has produced its outcome.
Ended(t) == task[t].pc = "returned" /\ task[t].outcome \in {"ok", "fail"}

\* C1: in the webhook program a run's outcome is ok only if a status poll
\* of its resume phase observed live, running or healthy before the
\* outcome was produced.
C1_OkOnlyAfterResumeConfirmed ==
  Webhook =>
    \A t \in Slots :
      task[t].outcome = "ok" => task[t].phase = "resume" /\ task[t].sawResume

C1_Witness ==
  Webhook /\ \E t \in Slots : Ended(t) /\ task[t].outcome = "ok"

\* The suspend loop of the run in slot t used all its attempts without a
\* confirmation and has performed its last attempt.
SuspendExhausted(t) ==
  /\ task[t].phase \in {"suspend", "resume"}
  /\ ~task[t].suspended
  /\ task[t].suspendActs = ACTION_RETRY
  /\ ~(task[t].phase = "suspend" /\ task[t].pc \in {"action", "query", "sleep"})

\* C2: in both programs a run whose suspend attempts all fail still leaves
\* the suspend phase and issues a resume action call, and no run ends, ok
\* or failed, inside its suspend phase.
C2_ResumeAfterSuspendExhausted ==
  /\ \A t \in Slots : SuspendExhausted(t) ~> (task[t].resumeActs >= 1)
  /\ [](\A t \in Slots : task[t].phase = "suspend" => task[t].outcome = "none")

C2_Witness ==
  \E t \in Slots : SuspendExhausted(t) /\ task[t].resumeActs >= 1

\* The run in slot t is in progress: restartService was entered with a
\* service target and has not returned.
Running(t) ==
  task[t].pc \in {"action", "query", "sleep", "backoff", "suspendAlert",
                  "settle", "resumeAlert"}

Count(alerts, kind) == Cardinality({i \in DOMAIN alerts : alerts[i] = kind})

\* The run in slot t ended after a resume phase whose action calls all
\* succeeded and whose polls never observed an acceptable status.
ResumeNeverConfirmed(t) ==
  Webhook /\ Ended(t) /\ ~task[t].resumeErr /\ ~task[t].sawResume

\* C4 as stated: such a run fails after exactly ACTION_RETRY resume calls
\* and triggers exactly one alert.
C4_Original ==
  \A t \in Slots :
    ResumeNeverConfirmed(t) =>
      /\ task[t].outcome = "fail"
      /\ task[t].resumeActs = ACTION_RETRY
      /\ Len(task[t].alerts) = 1

\* C4 amended: such a run fails after exactly ACTION_RETRY resume calls
\* and triggers exactly one resume-failure alert; it triggers one alert in
\* all when its suspend phase was confirmed, and two (the suspend warning
\* first) when its suspend phase was exhausted.
C4_ResumeExhaustedFails ==
  \A t \in Slots :
    ResumeNeverConfirmed(t) =>
      /\ task[t].outcome = "fail"
      /\ task[t].resumeActs = ACTION_RETRY
      /\ Count(task[t].alerts, "resumeFailed") = 1
      /\ task[t].alerts =
           (IF task[t].suspended THEN <<"resumeFailed">>
            ELSE <<"suspendFailed", "resumeFailed">>)

C4_Witness ==
  \E t \in Slots :
    /\ ResumeNeverConfirmed(t)
    /\ task[t].suspended
    /\ task[t].alerts = <<"resumeFailed">>

\* C5: in both programs every attempt of a phase issues exactly one action
\* call, failed calls included; a phase issues between 1 and ACTION_RETRY
\* action calls, and none after the attempt that was confirmed.
C5_AttemptBudget ==
  \A t \in Slots :
    task[t].phase \in {"suspend", "resume"} =>
      /\ task[t].suspendActs \in 1..ACTION_RETRY
      /\ task[t].phase = "suspend" =>
           task[t].suspendActs = task[t].attempt /\ task[t].resumeActs = 0
      /\ task[t].phase = "resume" =>
           /\ task[t].resumeActs \in 1..ACTION_RETRY
           /\ task[t].resumeActs = task[t].attempt
      /\ task[t].suspended => task[t].suspendActs = task[t].suspendConfirmAt
      /\ task[t].resumed => task[t].resumeActs = task[t].resumeConfirmAt

C5_Witness ==
  \E t \in Slots :
    /\ ~task[t].suspended
    /\ task[t].suspendActs = ACTION_RETRY
    /\ task[t].resumed /\ task[t].resumeActs = 2

\* C6 as stated: in both programs no resume action call is issued before
\* the settle delay that follows the suspend phase has elapsed.
C6_SettleBeforeResume ==
  \A t \in Slots : task[t].resumeActs >= 1 => task[t].settled

\* A secret header the claim calls missing or wrong.
BadSecret(secret) == secret = NULL \/ secret # UPTIMEROBOT_SECRET

\* C7: handling a request whose secret header is missing or differs from
\* the configured secret answers 401 and starts nothing: no slot changes,
\* so no action call, status query or alert comes of it, whatever the
\* server is doing.
C7_UnauthorizedStartsNothing ==
  [][ (lastReq' # lastReq /\ BadSecret(lastReq'.secret)) =>
        (lastReq'.status = 401 /\ ~lastReq'.spawned /\ task' = task) ]_vars

C7_Witness ==
  /\ lastReq.status = 401
  /\ \E t \in Slots : task[t].pc = "query" /\ task[t].phase = "resume"

\* C8: the request that started an orchestration was answered 200 when
\* the handler's synchronous part ended, so before any outcome of its
\* runs exists and whatever those outcomes are.
C8_AnsweredBeforeOutcomes ==
  Webhook => \A t \in Slots : task[t].pc # "free" => task[t].resp = 200

C8_Witness ==
  Webhook /\ \E t \in Slots :
    /\ task[t].resp = 200
    /\ task[t].pc = "done"
    /\ task[t].results = <<"fail", "ok">>

\* The orchestration in slot t is over.
Over(t) == task[t].pc \in {"done", "rejected"}

\* C9 as stated: the orchestrator runs restartService once for every
\* entry, in list order, a failed or throwing run never keeps the entries
\* after it from being run, and every failed run has triggered an alert.
C9_EveryServiceRun ==
  Webhook =>
    \A t \in Slots :
      /\ task[t].pc # "free" =>
           task[t].started = [i \in 1..task[t].idx |-> i]
      /\ Over(t) => task[t].idx = Len(SERVICES)
      /\ task[t].outcome = "fail" => Count(task[t].alerts, "resumeFailed") = 1

\* C10: with no service configured an authorized request is answered 200
\* and triggers exactly one alert, the no-services one; no action call and
\* no status query is issued and the orchestrator does not throw.
C10_NoServices ==
  (Webhook /\ Len(SERVICES) = 0) =>
    \A t \in Slots :
      task[t].pc # "free" =>
        /\ task[t].resp = 200
        /\ task[t].orchAlerts = <<"noServices">>
        /\ task[t].alerts = << >>
        /\ task[t].pc \in {"noServicesAlert", "done"}
        /\ task[t].started = << >>
        /\ task[t].suspendActs = 0 /\ task[t].resumeActs = 0

C10_Witness ==
  Webhook /\ Len(SERVICES) = 0 /\ \E t \in Slots :
    task[t].pc = "done" /\ task[t].orchAlerts = <<"noServices">>

\* The targets of a watchdog tick: SERVICE 1 and SERVICE 2 of mainLoop.
Targets == {1, 2}

\* The number of restartService calls the tick r made for target i.
Restarts(r, i) == Cardinality({k \in DOMAIN r.restarts : r.restarts[k] = i})

\* The tick r saw probe n of target i answer ok.
Probed(r, i, n, ok) == \E k \in DOMAIN r.probeLog : r.probeLog[k] = <<i, n, ok>>

\* C11: within one watchdog tick restartService is called for a target
\* exactly when its first and its second probe both failed, and then
\* once; a target whose first probe succeeded gets no second probe and no
\* restart, one whose second probe succeeded gets no restart, and the
\* other target's probes and restart have no part in it.
C11_RestartIffBothProbesFail ==
  variant = "watchdog" =>
    \A t \in Slots, i \in Targets :
      LET r == task[t] IN
      /\ Restarts(r, i) <= 1
      /\ Restarts(r, i) = 1 <=>
           (Probed(r, i, 1, FALSE) /\ Probed(r, i, 2, FALSE))
      /\ Probed(r, i, 1, TRUE) =>
           /\ ~Probed(r, i, 2, TRUE) /\ ~Probed(r, i, 2, FALSE)
           /\ Restarts(r, i) = 0
      /\ Probed(r, i, 2, TRUE) => Restarts(r, i) = 0
      /\ Cardinality({k \in DOMAIN r.probeLog : r.probeLog[k][1] = i}) <= 2

C11_Witness ==
  variant = "watchdog" /\ \E t \in Slots :
    /\ task[t].pc = "done"
    /\ task[t].restarts = <<1>>
    /\ Probed(task[t], 1, 1, FALSE) /\ Probed(task[t], 1, 2, FALSE)
    /\ Probed(task[t], 2, 1, TRUE)

\* An authorized POST, or a call of mainLoop by the interval timer, would
\* be served in the current state.
TriggerServed ==
  IF variant = "watchdog" THEN ENABLED mainLoop
  ELSE UPTIMEROBOT_SECRET # NULL => ENABLED webhook200

\* C12: nothing protects against overlap.  While an activation is in
\* progress (in its cooldown, in a restart, anywhere) a further trigger is
\* served at once; the witness is a state with two restart runs of the
\* same service in progress in which one run has a suspend call
\* outstanding that it issued after the other run issued a resume call.
C12_NoOverlapProtection ==
  (\E t \in Slots : Idle(t)) => TriggerServed

C12_Witness ==
  \E t \in Slots, u \in Slots :
    /\ t # u
    /\ Running(t) /\ Running(u)
    /\ target(variant, task[t]) = target(variant, task[u])
    /\ task[t].phase = "resume" /\ task[t].resumeActs >= 1
    /\ task[u].phase = "suspend" /\ task[u].pc = "action"
    /\ task[u].lateSuspend

\* The status string a poll observes in a body, before any normalising:
\* the first non-empty of the fields the program reads.
observed(v, body) ==
  IF v = "webhook"
  THEN orElse(body.service_status, orElse(body.service_state, body.state))
  ELSE orElse(body.service_status, body.state)

\* String.prototype.trim on a status string: the blanks at both ends go.
RECURSIVE trim(_)
trim(s) ==
  IF s = << >> THEN s
  ELSE IF Head(s) = " " THEN trim(Tail(s))
  ELSE IF s[Len(s)] = " " THEN trim(SubSeq(s, 1, Len(s) - 1))
  ELSE s

\* The poll that produced r2 from the run r confirmed r's phase.
Confirms(r, r2) == IF r.phase = "suspend" THEN r2.suspended ELSE r2.resumed

\* C13 as stated: in both programs, whatever a status query answers, the
\* poll confirms exactly when the observed status, lower-cased and
\* trimmed, is in the phase's set of acceptable states; a failed query
\* (no status) never confirms.
C13_ConfirmIffNormalizedMember ==
  \A t \in Slots :
    task[t].pc = "query" =>
      \A resp \in Responses :
        Confirms(task[t], pollResult(variant, task[t], resp, 0)) <=>
          /\ resp.ok
          /\ trim(toLowerCase(observed(variant, resp.body)))
               \in allowedStates(task[t].phase)

\* C14: in both programs a run in which every action call succeeded and
\* the first status poll of each phase was acceptable ends ok after one
\* suspend call and one resume call, without a back-off and without an
\* alert; while such a run is in progress it is in the first attempt of
\* its phase.
C14_HappyPath ==
  \A t \in Slots :
    task[t].clean =>
      /\ task[t].attempt = 1
      /\ task[t].backoffs = 0
      /\ task[t].alerts = << >>
      /\ task[t].suspendActs = 1
      /\ task[t].resumeActs = (IF task[t].phase = "resume" THEN 1 ELSE 0)
      /\ Ended(t) => task[t].outcome = "ok"

C14_Witness ==
  \E t \in Slots :
    /\ task[t].clean /\ Ended(t)
    /\ task[t].suspended /\ task[t].resumed

\* What a run keeps between its steps: the locals of restartService and
\* of the waitForStatus call in progress.
RunState(r) ==
  [ phase |-> r.phase, attempt |-> r.attempt, elapsed |-> r.elapsed,
    suspended |-> r.suspended, resumed |-> r.resumed,
    suspendActs |-> r.suspendActs, resumeActs |-> r.resumeActs,
    suspendConfirmAt |-> r.suspendConfirmAt,
    resumeConfirmAt |-> r.resumeConfirmAt,
    resumeErr |-> r.resumeErr, sawResume |-> r.sawResume,
    settled |-> r.settled, backoffs |-> r.backoffs, alerts |-> r.alerts,
    outcome |-> r.outcome, delivery |-> r.delivery, clean |-> r.clean ]

\* The run state with which the very first run of a process starts.
FirstRunState ==
  [ phase |-> "suspend", attempt |-> 1, elapsed |-> 0,
    suspended |-> FALSE, resumed |-> FALSE,
    suspendActs |-> 1, resumeActs |-> 0,
    suspendConfirmAt |-> 0, resumeConfirmAt |-> 0,
    resumeErr |-> FALSE, sawResume |-> FALSE,
    settled |-> FALSE, backoffs |-> 0, alerts |-> << >>,
    outcome |-> "none", delivery |-> "none", clean |-> TRUE ]

\* The run in slot t has its first suspend call outstanding.
FirstCall(t) ==
  /\ task[t].pc = "action" /\ task[t].phase = "suspend"
  /\ task[t].attempt = 1

\* C15: a run that follows another starts in the state the first run of
\* the process started in, whatever the earlier run did, so nothing of the
\* earlier run (attempt counters, confirmation flags, alerts) reaches it;
\* and a second run on an always-succeeding target of the webhook
\* program, made after a first run that returned ok, ends ok after the
\* same calls: one suspend call and one resume call, each confirmed by
\* its first poll, and no alert.
C15_SecondRunAsFirst ==
  \A t \in Slots :
    /\ FirstCall(t) => RunState(task[t]) = FirstRunState
    /\ ( /\ Webhook /\ task[t].idx = 2 /\ task[t].results = <<"ok">>
         /\ task[t].clean /\ Ended(t) ) =>
          /\ task[t].outcome = "ok"
          /\ task[t].suspendActs = 1 /\ task[t].resumeActs = 1
          /\ task[t].suspendConfirmAt = 1 /\ task[t].resumeConfirmAt = 1
          /\ task[t].alerts = << >>

C15_Witness ==
  Webhook /\ SERVICES = <<SVC, SVC>> /\ \E t \in Slots :
    /\ task[t].idx = 2 /\ task[t].results = <<"ok">>
    /\ task[t].clean /\ Ended(t) /\ task[t].outcome = "ok"

\* What the caller r of sendAlert has become, r2, is what the code after
\* the call makes of it: the run goes on to its settle delay, the run
\* returns the failure it had already found, the orchestrator records the
\* failure and goes on to the next entry, or the orchestrator is over.
CallerGoesOn(r, r2) ==
  /\ r.pc # "exceptionAlert" => r2.pc # "threw"
  /\ r.pc \in {"suspendAlert", "noServicesAlert", "orchestratorAlert"} =>
       r2.outcome = r.outcome /\ r2.results = r.results
  /\ r.pc = "suspendAlert" => r2.pc = "settle" /\ r2.outcome = "none"
  /\ r.pc = "resumeAlert" =>
       r2.pc = "returned" /\ r2.outcome = "fail" /\ ~r2.resumed
  /\ r.pc = "noServicesAlert" => r2.pc = "done"
  /\ r.pc = "exceptionAlert" =>
       /\ r2.results = Append(r.results, "fail")
       /\ IF r.idx < Len(SERVICES) THEN r2.idx = r.idx + 1 ELSE r2.pc = "done"
  /\ r.pc = "orchestratorAlert" => r2.pc = "rejected"

\* C16: when a sendAlert call resolves, delivered or not (POST failed,
\* or no alert URL configured), its caller goes on as the code after the
\* call says: nothing is thrown, no outcome changes, and the remaining
\* phases and services are processed.
C16_AlertNeverFailsCaller ==
  [][ \A t \in Slots :
        (task[t].pc \in AlertPcs /\ task'[t] # task[t]) =>
          /\ task'[t].delivery \in {"sent", "failed", "unconfigured"}
          /\ CallerGoesOn(task[t], task'[t]) ]_vars

C16_Witness ==
  Webhook /\ \E t \in Slots :
    /\ task[t].delivery = "failed"
    /\ task[t].pc = "settle" /\ ~task[t].suspended
    /\ task[t].alerts = <<"suspendFailed">>

\* C17 as stated: in the webhook program a back-off is waited only after
\* a failed attempt that a retry follows, so never after the last attempt
\* of a phase and never after a confirmed one; the back-off after attempt
\* k lasts k * BACKOFF_MS; and a phase that used n attempts has waited
\* n - 1 back-offs when it is over.
C17_BackoffOnlyBetweenAttempts ==
  Webhook =>
    \A t \in Slots :
      LET r == task[t] IN
      /\ r.pc = "backoff" =>
           /\ r.attempt < ACTION_RETRY
           /\ ~(IF r.phase = "suspend" THEN r.suspended ELSE r.resumed)
      /\ (r.pc = "action" /\ r.attempt >= 2) =>
           r.backoffMs = (r.attempt - 1) * BACKOFF_MS
      /\ (r.phase = "suspend" /\ r.pc \in {"suspendAlert", "settle"}) =>
           r.backoffs = r.suspendActs - 1
      /\ Ended(t) => r.backoffs = (r.suspendActs - 1) + (r.resumeActs - 1)

\* The poll that produced r2 from the run r made waitForStatus return
\* without a match (reason timeout).
ReturnsTimeout(r, r2) == r2.pc # "sleep" /\ ~Confirms(r, r2)

\* C18 as stated: in both programs no status query is outstanding once
\* the time since waitForStatus was called exceeds its timeout (the
\* deadline is tested after the sleep, before the next query); no poll
\* answered after the timeout confirms; and waitForStatus returns
\* unconfirmed only when the elapsed time exceeds the timeout.
C18_DeadlineBeforeQuery ==
  \A t \in Slots :
    task[t].pc = "query" =>
      LET limit == timeoutMs(variant, task[t].phase) IN
      /\ task[t].elapsed <= limit
      /\ \A resp \in Responses, latency \in Latencies :
           LET r2 == pollResult(variant, task[t], resp, latency)
               e == task[t].elapsed + latency
           IN  /\ Confirms(task[t], r2) => e <= limit
               /\ ReturnsTimeout(task[t], r2) => e > limit

\* After the failed attempt of r the phase loop goes on in r2: with the
\* next attempt's action call while the budget lasts, and otherwise with
\* what follows the loop.
Retried(r, r2) ==
  IF r.attempt < ACTION_RETRY
  THEN r2.pc = "action" /\ r2.attempt = r.attempt + 1 /\ r2.phase = r.phase
  ELSE /\ r2.pc # "threw" /\ r2.outcome # "threw"
       /\ \/ r2.phase # r.phase
          \/ r2.pc \in {"suspendAlert", "settle", "resumeAlert", "returned"}

\* The step r -> r2 of a run whose action call was outstanding: the call
\* succeeded and the attempt's first status query is issued, or it failed
\* and the attempt is over, unconfirmed and without a status query.
AfterAction(v, r, r2) ==
  \/ r2.pc = "query" /\ r2.attempt = r.attempt /\ r2.phase = r.phase
  \/ /\ v = "webhook"
     /\ r2.pc = "backoff" /\ r2.attempt = r.attempt /\ r2.phase = r.phase
     /\ ~Confirms(r, r2)
  \/ v = "watchdog" /\ Retried(r, r2)

\* Whatever failed status query (rejected or non-2xx) the run r gets, the
\* poll does not confirm and nothing is thrown, and polling goes on in
\* the same attempt unless the deadline has passed.
FailedQueryContained(v, r) ==
  \A resp \in Responses, latency \in Latencies :
    ~resp.ok =>
      LET r2 == pollResult(v, r, resp, latency) IN
      /\ ~Confirms(r, r2)
      /\ r2.pc # "threw" /\ r2.outcome # "threw"
      /\ ~timedOut(v, r.elapsed + latency, timeoutMs(v, r.phase)) =>
           r2.pc = "sleep" /\ r2.attempt = r.attempt /\ r2.phase = r.phase

\* C19: in both programs a failed action call ends its attempt without a
\* status query and the phase goes on with the next attempt while the
\* budget lasts; a failed status query does not confirm and polling goes
\* on; and no step of a run in its phase loops throws out of
\* restartService.
C19_ErrorsContained ==
  [][ \A t \in Slots :
        LET r == task[t]
            r2 == task'[t]
        IN  (r2 # r) =>
              /\ r.pc = "action" => AfterAction(variant, r, r2)
              /\ r.pc = "backoff" => Retried(r, r2)
              /\ r.pc = "query" =>
                   /\ FailedQueryContained(variant, r)
                   /\ r2.pc # "threw" /\ r2.outcome # "threw"
              /\ r.pc = "sleep" =>
                   r2.pc = "query" /\ r2.attempt = r.attempt
                   /\ r2.phase = r.phase ]_vars

C19_Witness ==
  \E t \in Slots :
    /\ task[t].resumeErr
    /\ task[t].phase = "resume" /\ task[t].attempt = 2
    /\ task[t].pc = "query"

\* The remote calls of the run r that are outstanding: the action call or
\* the status query it awaits.
Outstanding(r) ==
  (IF r.pc = "action" THEN {<<"action", r.phase, r.attempt>>} ELSE {})
    \cup (IF r.pc = "query" THEN {<<"status", r.phase, r.attempt>>} ELSE {})

\* C20: in both programs a run awaits at most one remote call at a time;
\* a suspend call is issued only in the suspend phase and before any
\* resume call of the run, a resume call only in the resume phase; a run
\* in its resume phase stays in it and issues no suspend call; and a run
\* issues at most 2 * ACTION_RETRY action calls.
C20_SequentialAndPhaseOrdered ==
  [][ \A t \in Slots :
        LET r == task[t]
            r2 == task'[t]
        IN  /\ Cardinality(Outstanding(r2)) <= 1
            /\ r2.suspendActs + r2.resumeActs <= 2 * ACTION_RETRY
            /\ (Running(t) /\ r.phase = "resume") =>
                 r2.phase = "resume" /\ r2.suspendActs = r.suspendActs
            /\ (r2.suspendActs # r.suspendActs /\ r2.suspendActs > 0) =>
                 /\ r2.pc = "action" /\ r2.phase = "suspend"
                 /\ r2.resumeActs = 0
                 /\ Running(t) => r2.suspendActs = r.suspendActs + 1
            /\ (r2.resumeActs # r.resumeActs /\ r2.resumeActs > 0) =>
                 /\ r2.pc = "action" /\ r2.phase = "resume"
                 /\ r2.resumeActs = r.resumeActs + 1
                 /\ r2.suspendActs = r.suspendActs ]_vars

C20_Witness ==
  \E t \in Slots :
    /\ Ended(t)
    /\ task[t].suspendActs = ACTION_RETRY /\ task[t].resumeActs = ACTION_RETRY
    /\ task[t].suspended /\ task[t].resumed

====
